---- MODULE Spec2Model ----
(***************************************************************************)
(* dotx: a link-farm manager.  The model covers the path planner           *)
(* (plan_install_paths), the installation and uninstallation decision      *)
(* engines (plan_install, plan_uninstall), the plan executor               *)
(* (execute_plan) and the install / uninstall commands that drive them,    *)
(* over a file system with regular files, directories and symbolic links.  *)
(*                                                                         *)
(* A path is a sequence of names; a name is a sequence of tokens, so that  *)
(* the "dot-" prefix test and the rename "dot-x" -> ".x" are computed on   *)
(* the name as the code computes them on the string.                       *)
(***************************************************************************)
EXTENDS Integers, Sequences, FiniteSets, TLC

VARIABLES
    fs,        \* the file system: absolute path -> [k: kind, t: link target]
    ignored,   \* source paths for which IgnoreRules.should_ignore is true
    patterns,  \* anchored always-create patterns (relative destination paths)
    pc,        \* position of the running command: setup / idle / planned / exec
    cmd,       \* the running (or last) command: [kind, dry]
    plans,     \* install_cmd / uninstall_cmd: the list `plans`, one Plan per source
    idx,       \* index into `plans` of the next plan to execute
    err,       \* how the last command ended: none / refused / an exception / exit2
    errIdx,    \* index of the plan whose execution raised (0 when none)
    log,       \* the commands execute_plan logged (before each step) or printed
    db,        \* the ledger: target path -> [pkg, link_type]
    ncmd,      \* number of commands started
    fs0,       \* the file system when the running command's execution starts
    db0,       \* the ledger when the running command started
    prev       \* the previous command: [kind, log]

vars == <<fs, ignored, patterns, pc, cmd, plans, idx, err, errIdx, log, db, ncmd,
          fs0, db0, prev>>

\* Bounds of the model.
MaxObjs == 3
MaxCmds == 2

-----------------------------------------------------------------------------
(* Names and paths *)

DotPrefix == "dot-"

Names == { <<"dot-", "a">>, <<".", "a">>, <<"b">> }

\* str comparison of the names: ".a" < "b" < "dot-a"
NameRank(n) ==
    CASE n = <<".", "a">> -> 1
      [] n = <<"b">> -> 2
      [] n = <<"dot-", "a">> -> 3
      [] OTHER -> 0

NameOrder == << <<".", "a">>, <<"b">>, <<"dot-", "a">> >>

S1 == << <<"S1">> >>
S2 == << <<"S2">> >>
Target == << <<"T">> >>
ExtFile == << <<"X">>, <<"f">> >>
ExtGone == << <<"X">>, <<"gone">> >>
ExtDir == << <<"X">> >>
\* A package kept inside the destination directory.
HomePkg == << <<"T">>, <<"pkg">> >>

NoPath == << <<"!">> >>

Parent(p) == SubSeq(p, 1, Len(p) - 1)
Name(p) == p[Len(p)]
IsPrefix(p, q) == Len(p) <= Len(q) /\ SubSeq(q, 1, Len(p)) = p
RelativeTo(p, root) == SubSeq(p, Len(root) + 1, Len(p))

\* A symbolic link stores its target as given: an absolute path, or a path
\* relative to the directory that holds the link (rel).
File == [k |-> "file", t |-> <<>>, rel |-> FALSE]
Dir == [k |-> "dir", t |-> <<>>, rel |-> FALSE]
Link(target) == [k |-> "link", t |-> target, rel |-> FALSE]
RelLink(target) == [k |-> "link", t |-> target, rel |-> TRUE]
LinkTarget(q, node) == IF node.rel THEN Parent(q) \o node.t ELSE node.t

BaseFs == (S1 :> Dir) @@ (S2 :> Dir) @@ (Target :> Dir)
          @@ (ExtDir :> Dir) @@ (ExtFile :> File)

-----------------------------------------------------------------------------
(* pathlib / os on the modelled file system F *)

\* The physical location a path resolves to, following symbolic links in
\* every component; NoPath when it does not resolve.  `fuel` bounds the
\* number of links followed (ELOOP).
RECURSIVE Phys(_, _, _)
PhysAt(F, q, fuel) ==
    IF q \notin DOMAIN F THEN NoPath
    ELSE IF F[q].k = "link"
         THEN IF fuel = 0 THEN NoPath
              ELSE Phys(F, LinkTarget(q, F[q]), fuel - 1)
         ELSE q

PhysIn(F, par, n, fuel) ==
    IF par = NoPath THEN NoPath ELSE PhysAt(F, par \o <<n>>, fuel)

Phys(F, p, fuel) ==
    IF p = <<>> THEN <<>>
    ELSE PhysIn(F, Phys(F, Parent(p), fuel), Name(p), fuel)

Resolve(F, p) == Phys(F, p, Cardinality(DOMAIN F))

\* The location of the directory entry itself (lstat): the parent is
\* resolved, the last component is not.
LPhys(F, p) ==
    LET par == Resolve(F, Parent(p))
    IN IF par = NoPath THEN NoPath
       ELSE IF par # <<>> /\ F[par].k # "dir" THEN NoPath
       ELSE par \o <<Name(p)>>

exists(F, p) == Resolve(F, p) # NoPath
is_file(F, p) == exists(F, p) /\ F[Resolve(F, p)].k = "file"
is_dir(F, p) == exists(F, p) /\ F[Resolve(F, p)].k = "dir"
lexists(F, p) == LPhys(F, p) \in DOMAIN F
is_symlink(F, p) == lexists(F, p) /\ F[LPhys(F, p)].k = "link"

\* Path.iterdir / os.scandir: the names in directory d
iterdir(F, d) ==
    IF ~is_dir(F, d) THEN {}
    ELSE LET pd == Resolve(F, d)
         IN { Name(q) : q \in { r \in DOMAIN F : Len(r) = Len(pd) + 1 /\ Parent(r) = pd } }

\* os.walk(followlinks=False): the child names split into dirnames and
\* filenames; a link to a directory is listed in dirnames but the walk does
\* not descend into it.
walk_dirnames(F, d) == { n \in iterdir(F, d) : is_dir(F, d \o <<n>>) }
walk_filenames(F, d) == iterdir(F, d) \ walk_dirnames(F, d)
walk_descends(F, d) == { n \in walk_dirnames(F, d) : ~is_symlink(F, d \o <<n>>) }

-----------------------------------------------------------------------------
(* The plan data model *)

Action == {"fail", "none", "skip", "link", "unlink", "create", "exists"}

PlanNode(a, rr, src, dst, isd) ==
    [action |-> a, requires_rename |-> rr, relative_source_path |-> src,
     relative_destination_path |-> dst, is_dir |-> isd]

Dot == <<>>

should_ignore_nothing(ign, p) == FALSE

\* IgnoreRules.should_ignore
should_ignore(ign, p) == p \in ign

\* IgnoreRules.prune_directories
prune_directories(ign, root, dirnames) ==
    { n \in dirnames : ~should_ignore(ign, root \o <<n>>) }

\* child.startswith("dot-")
StartsWithDot(n) == n[1] = DotPrefix

\* "." + child[4:]
Renamed(n) == <<".">> \o Tail(n)

\* plan_install_paths joining the child's name to the source path of its
\* directory instead of its destination path.
RECURSIVE PathsWalk_sourceParent(_, _, _, _, _)
PathsWalk_sourceParent(F, ign, root, rel, dstrel) ==
    LET here == root \o rel
        dirs == prune_directories(ign, here, walk_dirnames(F, here))
        kids == { n \in dirs \cup walk_filenames(F, here) :
                    ~should_ignore(ign, here \o <<n>>) }
        dstOf(n) == IF StartsWithDot(n) THEN rel \o <<Renamed(n)>>
                    ELSE rel \o <<n>>
        nodes == { PlanNode("none", StartsWithDot(n), rel \o <<n>>, dstOf(n),
                            is_dir(F, here \o <<n>>)) : n \in kids }
        below == UNION { PathsWalk_sourceParent(F, ign, root, rel \o <<n>>, dstOf(n)) :
                           n \in dirs \cap walk_descends(F, here) }
    IN IF should_ignore(ign, here) THEN below ELSE nodes \cup below

\* The nodes plan_install_paths creates for the children of directory `rel`
\* of the package and, walking top-down, for everything below it.
RECURSIVE PathsWalk(_, _, _, _, _)
PathsWalk(F, ign, root, rel, dstrel) ==
    LET here == root \o rel
        dirs == prune_directories(ign, here, walk_dirnames(F, here))
        kids == { n \in dirs \cup walk_filenames(F, here) :
                    ~should_ignore(ign, here \o <<n>>) }
        dstOf(n) == IF StartsWithDot(n) THEN dstrel \o <<Renamed(n)>>
                    ELSE dstrel \o <<n>>
        nodes == { PlanNode("none", StartsWithDot(n), rel \o <<n>>, dstOf(n),
                            is_dir(F, here \o <<n>>)) : n \in kids }
        below == UNION { PathsWalk(F, ign, root, rel \o <<n>>, dstOf(n)) :
                           n \in dirs \cap walk_descends(F, here) }
    IN IF should_ignore(ign, here) THEN below ELSE nodes \cup below

plan_install_paths(F, ign, root) ==
    LET nodes == PathsWalk(F, ign, root, Dot, Dot)
                 \cup { PlanNode("exists", FALSE, Dot, Dot, TRUE) }
        keys == { n.relative_source_path : n \in nodes }
    IN [ p \in keys |-> CHOOSE n \in nodes : n.relative_source_path = p ]

-----------------------------------------------------------------------------
(* Plan marking *)

SetAction(plan, p, a) == [plan EXCEPT ![p].action = a]

\* for parent in child.parents: nearest first, "." last
RECURSIVE mark_all_ancestors(_, _, _, _)
mark_all_ancestors(child, mark, stop_mark, plan) ==
    IF child = Dot THEN plan
    ELSE LET parent == Parent(child)
         IN IF parent \in DOMAIN plan
            THEN IF plan[parent].action = stop_mark THEN plan
                 ELSE mark_all_ancestors(parent, mark, stop_mark,
                                         SetAction(plan, parent, mark))
            ELSE mark_all_ancestors(parent, mark, stop_mark, plan)

mark_immediate_children(F, parent, mark, allow_overwrite, source_package_root, plan) ==
    LET children == { parent \o <<n>> : n \in iterdir(F, source_package_root \o parent) }
    IN [ p \in DOMAIN plan |->
           IF p \in children /\ plan[p].action \in allow_overwrite
           THEN [plan[p] EXCEPT !.action = mark]
           ELSE plan[p] ]

\* The paths mark_all_descendents reaches: it recurses into every child for
\* which is_dir() holds, a link to a directory included.
RECURSIVE Descendents(_, _, _)
Descendents(F, source_package_root, parent) ==
    LET children == { parent \o <<n>> : n \in iterdir(F, source_package_root \o parent) }
    IN children \cup
       UNION { Descendents(F, source_package_root, c) :
                 c \in { d \in children : is_dir(F, source_package_root \o d) } }

mark_all_descendents_immediate(F, parent, mark, allow_overwrite, source_package_root, plan) ==
    mark_immediate_children(F, parent, mark, allow_overwrite, source_package_root, plan)

mark_all_descendents(F, parent, mark, allow_overwrite, source_package_root, plan) ==
    LET reached == Descendents(F, source_package_root, parent)
    IN [ p \in DOMAIN plan |->
           IF p \in reached /\ plan[p].action \in allow_overwrite
           THEN [plan[p] EXCEPT !.action = mark]
           ELSE plan[p] ]

-----------------------------------------------------------------------------
(* The installation decision engine *)

\* HierarchicalPatternMatcher.matches for anchored patterns: a pattern
\* matches the directory it names and everything below it.
matches(pats, path) == \E q \in pats : IsPrefix(q, path)

_matches_always_create_at_any_depth(path, pats) == matches(pats, path)

_matches_always_create_at_exact_depth(path, pats) ==
    /\ matches(pats, path)
    /\ \E q \in pats : Len(q) = Len(path) /\ IsPrefix(q, path)

\* First pass of plan_install over the children of `rel`.
found_children_to_rename_never(F, plan, root, rel) == FALSE

found_children_to_rename(F, plan, root, rel) ==
    \E n \in iterdir(F, root \o rel) :
        /\ rel \o <<n>> \in DOMAIN plan
        /\ plan[rel \o <<n>>].requires_rename

MarkFailures_anything(F, plan, root, dst, rel) ==
    LET children == { rel \o <<n>> : n \in iterdir(F, root \o rel) }
    IN [ p \in DOMAIN plan |->
           IF /\ p \in children
              /\ exists(F, dst \o plan[p].relative_destination_path)
           THEN [plan[p] EXCEPT !.action = "fail"]
           ELSE plan[p] ]

MarkFailures(F, plan, root, dst, rel) ==
    LET children == { rel \o <<n>> : n \in iterdir(F, root \o rel) }
    IN [ p \in DOMAIN plan |->
           IF /\ p \in children
              /\ exists(F, dst \o plan[p].relative_destination_path)
              /\ is_file(F, dst \o plan[p].relative_destination_path)
           THEN [plan[p] EXCEPT !.action = "fail"]
           ELSE plan[p] ]

\* Second pass: the action of the directory `rel` itself.
DecideDirectory_renameFirst(F, plan, found, dst, pats, rel) ==
    LET destination == plan[rel].relative_destination_path
    IN IF rel = Dot
       THEN SetAction(plan, rel, "exists")
       ELSE IF found
       THEN mark_all_ancestors(rel, "create", "exists", SetAction(plan, rel, "create"))
       ELSE IF exists(F, dst \o destination)
       THEN mark_all_ancestors(rel, "exists", "exists", SetAction(plan, rel, "exists"))
       ELSE IF _matches_always_create_at_exact_depth(destination, pats)
       THEN mark_all_ancestors(rel, "create", "exists", SetAction(plan, rel, "create"))
       ELSE SetAction(plan, rel, "link")

DecideDirectory(F, plan, found, dst, pats, rel) ==
    LET destination == plan[rel].relative_destination_path
    IN IF rel = Dot
       THEN SetAction(plan, rel, "exists")
       ELSE IF exists(F, dst \o destination)
       THEN mark_all_ancestors(rel, "exists", "exists", SetAction(plan, rel, "exists"))
       ELSE IF found
       THEN mark_all_ancestors(rel, "create", "exists", SetAction(plan, rel, "create"))
       ELSE IF _matches_always_create_at_exact_depth(destination, pats)
       THEN mark_all_ancestors(rel, "create", "exists", SetAction(plan, rel, "create"))
       ELSE SetAction(plan, rel, "link")

\* Third pass: the children follow the directory.
MarkChildren_noCreate(F, plan, root, rel) ==
    IF plan[rel].action = "link"
    THEN mark_immediate_children(F, rel, "skip", {"none", "link"}, root, plan)
    ELSE plan

MarkChildren_noLink(F, plan, root, rel) ==
    IF plan[rel].action \in {"create", "exists"}
    THEN mark_immediate_children(F, rel, "link", {"none"}, root, plan)
    ELSE plan

MarkChildren_asParent(F, plan, root, rel) ==
    IF plan[rel].action \in {"create", "exists"}
    THEN mark_immediate_children(F, rel, plan[rel].action, {"none"}, root, plan)
    ELSE IF plan[rel].action = "link"
    THEN mark_immediate_children(F, rel, "skip", {"none", "link"}, root, plan)
    ELSE plan

MarkChildren(F, plan, root, rel) ==
    IF plan[rel].action \in {"create", "exists"}
    THEN mark_immediate_children(F, rel, "link", {"none"}, root, plan)
    ELSE IF plan[rel].action = "link"
    THEN mark_immediate_children(F, rel, "skip", {"none", "link"}, root, plan)
    ELSE plan

\* One iteration of the os.walk loop of plan_install.
InstallVisit(F, plan, root, dst, pats, rel) ==
    IF rel \notin DOMAIN plan THEN plan
    ELSE LET found == found_children_to_rename(F, plan, root, rel)
             p1 == MarkFailures(F, plan, root, dst, rel)
             p2 == DecideDirectory(F, p1, found, dst, pats, rel)
         IN MarkChildren(F, p2, root, rel)

\* os.walk(topdown=False): every directory after the directories below it.
RECURSIVE InstallWalk(_, _, _, _, _, _, _)
InstallWalk(F, plan, root, dst, pats, rel, i) ==
    IF i > Len(NameOrder)
    THEN InstallVisit(F, plan, root, dst, pats, rel)
    ELSE LET n == NameOrder[i]
         IN IF n \in walk_descends(F, root \o rel)
            THEN InstallWalk(F, InstallWalk(F, plan, root, dst, pats, rel \o <<n>>, 1),
                             root, dst, pats, rel, i + 1)
            ELSE InstallWalk(F, plan, root, dst, pats, rel, i + 1)

DelRoot(plan) == [ p \in DOMAIN plan \ {Dot} |-> plan[p] ]

plan_install(F, ign, pats, source_package_root, destination_root) ==
    DelRoot(InstallWalk(F, plan_install_paths(F, ign, source_package_root),
                        source_package_root, destination_root, pats, Dot, 1))

-----------------------------------------------------------------------------
(* The uninstallation decision engine *)

\* The loop of plan_uninstall over the files of directory `rel`.
UnlinkFiles_exists(F, plan, root, dst, rel) ==
    LET files == { rel \o <<n>> : n \in walk_filenames(F, root \o rel) }
    IN [ p \in DOMAIN plan |->
           IF /\ p \in files
              /\ lexists(F, dst \o plan[p].relative_destination_path)
           THEN [plan[p] EXCEPT !.action = "unlink"]
           ELSE plan[p] ]

UnlinkFiles(F, plan, root, dst, rel) ==
    LET files == { rel \o <<n>> : n \in walk_filenames(F, root \o rel) }
    IN [ p \in DOMAIN plan |->
           IF /\ p \in files
              /\ is_symlink(F, dst \o plan[p].relative_destination_path)
           THEN [plan[p] EXCEPT !.action = "unlink"]
           ELSE plan[p] ]

\* plan_uninstall deciding UNLINK for every directory below the root whose
\* destination exists, a real directory included.
UninstallVisit_unlinkExisting(F, plan, root, dst, rel) ==
    IF rel \notin DOMAIN plan \/ plan[rel].action = "skip" THEN plan
    ELSE LET p1 == UnlinkFiles(F, plan, root, dst, rel)
             destination_path == dst \o p1[rel].relative_destination_path
             action == IF ~exists(F, destination_path) THEN "skip"
                       ELSE IF is_symlink(F, destination_path) \/ rel # Dot THEN "unlink"
                       ELSE "None"
         IN IF action = "None" THEN p1
            ELSE LET p2 == SetAction(p1, rel, action)
                 IN IF is_dir(F, root \o p2[rel].relative_source_path)
                    THEN mark_all_descendents(F, rel, "skip", {"none"}, root, p2)
                    ELSE p2

\* One iteration of the os.walk loop of plan_uninstall.
UninstallVisit(F, plan, root, dst, rel) ==
    IF rel \notin DOMAIN plan \/ plan[rel].action = "skip" THEN plan
    ELSE LET p1 == UnlinkFiles(F, plan, root, dst, rel)
             destination_path == dst \o p1[rel].relative_destination_path
             action == IF ~exists(F, destination_path) THEN "skip"
                       ELSE IF is_symlink(F, destination_path) THEN "unlink"
                       ELSE "None"
         IN IF action = "None" THEN p1
            ELSE LET p2 == SetAction(p1, rel, action)
                 IN IF is_dir(F, root \o p2[rel].relative_source_path)
                    THEN mark_all_descendents(F, rel, "skip", {"none"}, root, p2)
                    ELSE p2

\* os.walk(topdown=True): every directory before the directories below it.
RECURSIVE UninstallWalk(_, _, _, _, _, _)
UninstallWalk(F, plan, root, dst, rel, i) ==
    LET p0 == IF i = 1 THEN UninstallVisit(F, plan, root, dst, rel) ELSE plan
    IN IF i > Len(NameOrder) THEN p0
       ELSE LET n == NameOrder[i]
            IN IF n \in walk_descends(F, root \o rel)
               THEN UninstallWalk(F, UninstallWalk(F, p0, root, dst, rel \o <<n>>, 1),
                                  root, dst, rel, i + 1)
               ELSE UninstallWalk(F, p0, root, dst, rel, i + 1)

plan_uninstall(F, ign, source_package_root, destination_root) ==
    DelRoot(UninstallWalk(F, plan_install_paths(F, ign, source_package_root),
                          source_package_root, destination_root, Dot, 1))

-----------------------------------------------------------------------------
(* The plan executor *)

\* Path.__lt__: tuple comparison of the parts
RECURSIVE PathLess(_, _)
PathLess(p, q) ==
    IF p = <<>> THEN q # <<>>
    ELSE IF q = <<>> THEN FALSE
    ELSE IF Head(p) = Head(q) THEN PathLess(Tail(p), Tail(q))
    ELSE NameRank(Head(p)) < NameRank(Head(q))

RECURSIVE SortedNodes(_)
SortedNodes(nodes) ==
    IF nodes = {} THEN <<>>
    ELSE LET first == CHOOSE n \in nodes : \A m \in nodes \ {n} :
                          PathLess(n.relative_source_path, m.relative_source_path)
         IN <<first>> \o SortedNodes(nodes \ {first})

extract_plan_everything(plan, actions) ==
    SortedNodes({ plan[p] : p \in DOMAIN plan })

extract_plan(plan, actions) ==
    SortedNodes({ plan[p] : p \in { q \in DOMAIN plan : plan[q].action \in actions } })

\* (source_package_root / step.relative_source_path).resolve()
ResolvedSource(F, root, step) ==
    LET source == root \o step.relative_source_path
    IN IF exists(F, source) THEN Resolve(F, source)
       ELSE IF is_symlink(F, source)
            THEN LinkTarget(LPhys(F, source), F[LPhys(F, source)])
            ELSE source

\* source.relative_to(destination.parent): lexical, no walking up; the
\* ValueError leaves the absolute path.
relative_source_never(source, destination) == Link(source)

relative_source(source, destination) ==
    IF IsPrefix(Parent(destination), source)
    THEN RelLink(RelativeTo(source, Parent(destination)))
    ELSE Link(source)

\* Path.mkdir / Path.symlink_to: a new directory entry `node` at `destination`
NewEntry(F, destination, node) ==
    IF lexists(F, destination) THEN [fs |-> F, err |-> "FileExistsError"]
    ELSE IF ~exists(F, Parent(destination)) THEN [fs |-> F, err |-> "FileNotFoundError"]
    ELSE IF ~is_dir(F, Parent(destination)) THEN [fs |-> F, err |-> "NotADirectoryError"]
    ELSE [fs |-> (LPhys(F, destination) :> node) @@ F, err |-> "none"]

\* Path.unlink of a symbolic link
RemoveEntry(F, destination) ==
    [ p \in DOMAIN F \ {LPhys(F, destination)} |-> F[p] ]

execute_plan_step_lenient(F, root, dst, step) ==
    LET destination == dst \o step.relative_destination_path
        source == ResolvedSource(F, root, step)
    IN CASE step.action = "create" -> NewEntry(F, destination, Dir)
         [] step.action = "link" ->
                NewEntry(F, destination, relative_source(source, destination))
         [] OTHER -> [fs |-> RemoveEntry(F, destination), err |-> "none"]

execute_plan_step(F, root, dst, step) ==
    LET destination == dst \o step.relative_destination_path
        source == ResolvedSource(F, root, step)
    IN CASE step.action = "create" -> NewEntry(F, destination, Dir)
         [] step.action = "link" -> NewEntry(F, destination, relative_source(source, destination))
         [] step.action = "unlink" /\ is_symlink(F, destination) ->
                [fs |-> RemoveEntry(F, destination), err |-> "none"]
         [] OTHER -> [fs |-> F, err |-> "exit2"]

\* The ledger notification of one applied step.
LinkType(step) ==
    IF step.action = "create" THEN "created_dir"
    ELSE IF step.is_dir THEN "directory" ELSE "file"

\* InstallationDB.record_installation: INSERT OR REPLACE keyed by the
\* absolute target path.
record_installation(D, source_package_root, target_path, link_type) ==
    (target_path :> [pkg |-> source_package_root, link_type |-> link_type]) @@ D

remove_installation_kept(D, target_path) == D

\* InstallationDB.remove_installation: DELETE WHERE target_path = ...
remove_installation(D, target_path) ==
    [ p \in DOMAIN D \ {target_path} |-> D[p] ]

Notify(D, root, dst, step) ==
    LET target_path == dst \o step.relative_destination_path
    IN IF step.action \in {"create", "link"}
       THEN record_installation(D, root, target_path, LinkType(step))
       ELSE remove_installation(D, target_path)

LogEntry(root, dst, step) ==
    [pkg |-> root, action |-> step.action, path |-> step.relative_source_path,
     dest |-> dst \o step.relative_destination_path]

\* The loop of execute_plan over the extracted steps, from step i on.
RECURSIVE RunSteps(_, _, _, _, _, _)
RunSteps(st, root, dst, steps, dry, i) ==
    IF i > Len(steps) \/ st.err # "none" THEN st
    ELSE LET step == steps[i]
             logged == Append(st.log, LogEntry(root, dst, step))
         IN IF dry
            THEN RunSteps([st EXCEPT !.log = logged], root, dst, steps, dry, i + 1)
            ELSE LET r == execute_plan_step(st.fs, root, dst, step)
                 IN IF r.err # "none"
                    THEN [st EXCEPT !.err = r.err, !.log = logged]
                    ELSE RunSteps([fs |-> r.fs, db |-> Notify(st.db, root, dst, step),
                                   err |-> "none", log |-> logged],
                                  root, dst, steps, dry, i + 1)

is_dry_run_never == FALSE

is_dry_run == cmd.dry

execute_plan_noDryRun(F, D, L, source_package_root, destination_root, plan, dry) ==
    RunSteps([fs |-> F, db |-> D, err |-> "none", log |-> L],
             source_package_root, destination_root,
             extract_plan(plan, {"create", "link", "unlink"}), FALSE, 1)

execute_plan(F, D, L, source_package_root, destination_root, plan, dry) ==
    RunSteps([fs |-> F, db |-> D, err |-> "none", log |-> L],
             source_package_root, destination_root,
             extract_plan(plan, {"create", "link", "unlink"}), dry, 1)

-----------------------------------------------------------------------------
(* The user prepares packages, destination, ignore rules and patterns *)

\* The patterns of the always-create file shipped with dotx: ".a" stands for
\* the top-level directories it names (.config, .local, ...).
BuiltinPatterns == { << <<".", "a">> >> }

EmptyDb == [ p \in {} |-> [pkg |-> <<>>, link_type |-> ""] ]

Init ==
    /\ fs = BaseFs
    /\ ignored = {}
    /\ patterns = BuiltinPatterns
    /\ pc = "setup"
    /\ cmd = [kind |-> "none", dry |-> TRUE]
    /\ plans = <<>>
    /\ idx = 1
    /\ err = "none"
    /\ errIdx = 0
    /\ log = <<>>
    /\ db = EmptyDb
    /\ ncmd = 0
    /\ fs0 = BaseFs
    /\ db0 = EmptyDb
    /\ prev = [kind |-> "none", log |-> <<>>]

Objs == Cardinality(DOMAIN fs) - Cardinality(DOMAIN BaseFs)
        + Cardinality(ignored) + Cardinality(patterns \ BuiltinPatterns)

Under(root) == { p \in DOMAIN fs : IsPrefix(root, p) }
RealDirs(root) == { p \in Under(root) : fs[p].k = "dir" }
SourceNodes == (Under(S1) \cup Under(S2)) \ {S1, S2}

DstName(n) == IF StartsWithDot(n) THEN Renamed(n) ELSE n
DstNames == { DstName(n) : n \in Names }

\* the packages named on the command line
Sources == IF HomePkg \in DOMAIN fs THEN <<HomePkg>>
           ELSE IF Under(S2) = {S2} THEN <<S1>> ELSE <<S1, S2>>

Program == <<pc, cmd, plans, idx, err, errIdx, log, db, ncmd, fs0, db0, prev>>

\* Two flat packages, S1 and S2, of files and directories.
UserCreatePackage ==
    /\ pc = "setup" /\ Objs < MaxObjs
    /\ \E root \in {S1, S2} : \E n \in Names : \E node \in {File, Dir} :
          /\ root = S2 => Under(S1) # {S1}
          /\ root \o <<n>> \notin DOMAIN fs
          /\ fs' = (root \o <<n>> :> node) @@ fs
    /\ UNCHANGED <<ignored, patterns, Program>>

\* The package S1: files, directories and links to a file or a directory
\* outside it.
UserCreateSource ==
    /\ pc = "setup" /\ Objs < MaxObjs
    /\ \E d \in RealDirs(S1) : \E n \in Names : \E node \in {File, Dir, Link(ExtFile), Link(ExtDir)} :
          /\ d \o <<n>> \notin DOMAIN fs
          /\ fs' = (d \o <<n>> :> node) @@ fs
    /\ UNCHANGED <<ignored, patterns, Program>>

\* The package HomePkg, kept inside the destination directory; it may hold
\* a link whose target is missing.
UserCreateHome ==
    /\ pc = "setup" /\ Objs < MaxObjs
    /\ \E d \in RealDirs(HomePkg) : \E n \in Names : \E node \in {File, Dir, Link(ExtFile), Link(ExtGone)} :
          /\ d \o <<n>> \notin DOMAIN fs
          /\ fs' = (d \o <<n>> :> node) @@ fs
    /\ UNCHANGED <<ignored, patterns, Program>>

\* The destination paths the packages map to, with the source objects that
\* map to each: objects elsewhere under the destination are never looked at.
DestinationsOf(root) ==
    LET pl == plan_install_paths(fs, {}, root)
    IN { Target \o pl[p].relative_destination_path : p \in DOMAIN pl \ {Dot} }

Destinations ==
    IF HomePkg \in DOMAIN fs THEN DestinationsOf(HomePkg)
    ELSE DestinationsOf(S1) \cup DestinationsOf(S2)

UserCreateDest ==
    /\ pc = "setup" /\ Objs < MaxObjs
    /\ \E destination \in Destinations :
       \E node \in {File, Dir, Link(ExtFile), Link(ExtGone)} :
          /\ ~lexists(fs, destination)
          /\ Parent(destination) \in RealDirs(Target) \cup {Target}
          /\ fs' = (LPhys(fs, destination) :> node) @@ fs
    /\ UNCHANGED <<ignored, patterns, Program>>

UserIgnore ==
    /\ pc = "setup" /\ Objs < MaxObjs
    /\ \E p \in SourceNodes \ ignored : ignored' = ignored \cup {p}
    /\ UNCHANGED <<fs, patterns, Program>>

\* patterns that name the destination of a directory of a package
PatternChoices ==
    UNION { { pl[p].relative_destination_path : p \in { q \in DOMAIN pl \ {Dot} : pl[q].is_dir } } :
              pl \in { plan_install_paths(fs, ignored, root) : root \in {S1, S2} } }

UserAlwaysCreate ==
    /\ pc = "setup" /\ Objs < MaxObjs
    /\ \E q \in PatternChoices \ patterns : patterns' = patterns \cup {q}
    /\ UNCHANGED <<fs, ignored, Program>>

-----------------------------------------------------------------------------
(* The install and uninstall commands *)

HasFail(plan) == extract_plan(plan, {"fail"}) # <<>>

can_install_first(ps) == ~HasFail(ps[1])

can_install(ps) == \A i \in 1..Len(ps) : ~HasFail(ps[i])

\* A command starts after the setup or after a command that ran for real,
\* ended without error and applied at least one step (any other command
\* leaves the file system as it found it).
StartCommand(kind, ps) ==
    /\ \/ pc = "setup"
       \/ pc = "idle" /\ ~cmd.dry /\ err = "none" /\ log # <<>>
    /\ ncmd < MaxCmds
    /\ plans' = ps
    /\ \E dry \in BOOLEAN : cmd' = [kind |-> kind, dry |-> dry]
    /\ pc' = "planned"
    /\ idx' = 1 /\ err' = "none" /\ errIdx' = 0 /\ log' = <<>>
    /\ fs0' = fs /\ db0' = db
    /\ prev' = [kind |-> cmd.kind, log |-> log]
    /\ ncmd' = ncmd + 1
    /\ UNCHANGED <<fs, ignored, patterns, db>>

\* install_cmd.install, the loop that plans every source package
InstallPlan ==
    StartCommand("install", [ i \in 1..Len(Sources) |->
               plan_install(fs, ignored, patterns, Sources[i], Target) ])

\* uninstall_cmd.uninstall, the loop that plans every source package
UninstallPlan ==
    StartCommand("uninstall", [ i \in 1..Len(Sources) |->
               plan_uninstall(fs, ignored, Sources[i], Target) ])

InstallRefuse ==
    /\ pc = "planned" /\ cmd.kind = "install" /\ ~can_install(plans)
    /\ pc' = "idle" /\ err' = "refused"
    /\ UNCHANGED <<fs, ignored, patterns, cmd, plans, idx, errIdx, log, db, ncmd,
                   fs0, db0, prev>>

\* One iteration of the `for source_package, plan in plans` loop that
\* executes the plans.
Execute ==
    /\ \/ pc = "planned" /\ (cmd.kind = "install" => can_install(plans))
       \/ pc = "exec"
    /\ \E r \in {execute_plan(fs, db, log, Sources[idx], Target, plans[idx], is_dry_run)} :
          /\ fs' = r.fs /\ db' = r.db /\ log' = r.log /\ err' = r.err
          /\ errIdx' = IF r.err = "none" THEN 0 ELSE idx
          /\ pc' = IF r.err # "none" \/ idx = Len(plans) THEN "idle" ELSE "exec"
          /\ idx' = idx + 1
    /\ UNCHANGED <<ignored, patterns, cmd, plans, ncmd, fs0, db0, prev>>

Next ==
    \/ UserCreateSource
    \/ UserCreateDest
    \/ UserIgnore
    \/ UserAlwaysCreate
    \/ InstallPlan
    \/ UninstallPlan
    \/ InstallRefuse
    \/ Execute

Spec == Init /\ [][Next]_vars

\* Installing and uninstalling two packages in one invocation.
NextMulti ==
    \/ UserCreatePackage
    \/ UserCreateDest
    \/ InstallPlan
    \/ UninstallPlan
    \/ InstallRefuse
    \/ Execute

SpecMulti == Init /\ [][NextMulti]_vars

\* The destination is shared with other programs and not locked: between
\* planning and execution of an uninstall something else replaces one of
\* the symlinks the plan wants to unlink by a regular file.
UserReplaceDest ==
    /\ pc = "planned" /\ cmd.kind = "uninstall"
    /\ \A i \in 1..Len(plans) : \A p \in DOMAIN plans[i] :
          plans[i][p].action = "unlink"
              => is_symlink(fs, Target \o plans[i][p].relative_destination_path)
    /\ \E i \in 1..Len(plans) : \E p \in DOMAIN plans[i] :
          /\ plans[i][p].action = "unlink"
          /\ fs' = [fs EXCEPT
                ![LPhys(fs, Target \o plans[i][p].relative_destination_path)] = File]
    /\ fs0' = fs'
    /\ UNCHANGED <<ignored, patterns, pc, cmd, plans, idx, err, errIdx, log, db,
                   ncmd, db0, prev>>

NextStale ==
    \/ UserCreatePackage
    \/ UserCreateDest
    \/ InstallPlan
    \/ UninstallPlan
    \/ UserReplaceDest
    \/ InstallRefuse
    \/ Execute

SpecStale == Init /\ [][NextStale]_vars

\* Installing and uninstalling a package that lies inside the destination
\* directory.
HomeFs == (HomePkg :> Dir) @@ BaseFs

InitHome ==
    /\ fs = HomeFs
    /\ ignored = {}
    /\ patterns = BuiltinPatterns
    /\ pc = "setup"
    /\ cmd = [kind |-> "none", dry |-> TRUE]
    /\ plans = <<>>
    /\ idx = 1
    /\ err = "none"
    /\ errIdx = 0
    /\ log = <<>>
    /\ db = EmptyDb
    /\ ncmd = 0
    /\ fs0 = HomeFs
    /\ db0 = EmptyDb
    /\ prev = [kind |-> "none", log |-> <<>>]

NextHome ==
    \/ UserCreateHome
    \/ UserCreateDest
    \/ InstallPlan
    \/ UninstallPlan
    \/ InstallRefuse
    \/ Execute

SpecHome == InitHome /\ [][NextHome]_vars

\* Installing and uninstalling when the destination directory is itself a
\* symbolic link to a directory (--target accepts any existing directory).
RealTarget == << <<"R">> >>
LinkedFs == (RealTarget :> Dir) @@ [BaseFs EXCEPT ![Target] = Link(RealTarget)]

InitLinkedTarget ==
    /\ fs = LinkedFs
    /\ ignored = {}
    /\ patterns = BuiltinPatterns
    /\ pc = "setup"
    /\ cmd = [kind |-> "none", dry |-> TRUE]
    /\ plans = <<>>
    /\ idx = 1
    /\ err = "none"
    /\ errIdx = 0
    /\ log = <<>>
    /\ db = EmptyDb
    /\ ncmd = 0
    /\ fs0 = LinkedFs
    /\ db0 = EmptyDb
    /\ prev = [kind |-> "none", log |-> <<>>]

SpecLinkedTarget == InitLinkedTarget /\ [][Next]_vars

-----------------------------------------------------------------------------
(* Properties *)

\* The plans as they stand right after planning: nothing was executed yet,
\* so fs is the file system the planner looked at.
InstallPlanned == pc = "planned" /\ cmd.kind = "install"
UninstallPlanned == pc = "planned" /\ cmd.kind = "uninstall"

ChildrenIn(plan, p) == { c \in DOMAIN plan : Len(c) = Len(p) + 1 /\ Parent(c) = p }
Destination(node) == Target \o node.relative_destination_path
Steps(plan) == extract_plan(plan, {"create", "link", "unlink"})

RECURSIVE TotalSteps(_)
TotalSteps(ps) == IF ps = <<>> THEN 0 ELSE Len(Steps(Head(ps))) + TotalSteps(Tail(ps))

\* C1: executing, for real, the plan of an install that has no FAIL entry,
\* with no change to the destination since planning, raises no "already
\* exists" error on a LINK or CREATE step.
C1_NoAlreadyExists ==
    ~(cmd.kind = "install" /\ ~cmd.dry /\ errIdx = 1 /\ err = "FileExistsError")

\* C2: in an install over several packages every plan is computed before any
\* is executed, and when some plan has a FAIL entry no plan is executed: the
\* file system stays as it was and no step is attempted.
C2_AllOrNothing ==
    (cmd.kind = "install" /\ pc # "setup")
        => /\ Len(plans) = Len(Sources)
           /\ (\E i \in 1..Len(plans) : HasFail(plans[i]))
                 => (pc # "exec" /\ fs = fs0 /\ log = <<>>)

C2_Witness ==
    /\ cmd.kind = "install" /\ ~cmd.dry /\ err = "refused"
    /\ Len(plans) = 2
    /\ ~HasFail(plans[1]) /\ Steps(plans[1]) # <<>>
    /\ HasFail(plans[2])

\* C3: in a plan of plan_install an entry is FAIL exactly when its
\* destination path existed and was a regular file (as Path.exists and
\* Path.is_file see it) at planning time; neither the decision taken for a
\* directory nor the marking of ancestors and children overwrites a FAIL.
C3_FailIffRegularFile ==
    InstallPlanned =>
        \A i \in 1..Len(plans) : \A p \in DOMAIN plans[i] :
            plans[i][p].action = "fail"
                <=> (exists(fs, Destination(plans[i][p]))
                     /\ is_file(fs, Destination(plans[i][p])))

C3_Witness ==
    /\ InstallPlanned
    /\ \E p \in DOMAIN plans[1] :
          /\ plans[1][p].action = "fail" /\ plans[1][p].is_dir
          /\ \E c \in ChildrenIn(plans[1], p) : plans[1][c].action = "link"

\* C4: after an install that had no FAIL and completed, the uninstall run
\* next removes every symbolic link the install created: no destination of
\* a LINK step of the install and no destination of a plan entry is a
\* symbolic link afterwards.
C4_RoundTrip ==
    (pc = "idle" /\ cmd.kind = "uninstall" /\ ~cmd.dry /\ prev.kind = "install")
        => /\ \A i \in 1..Len(prev.log) :
                 prev.log[i].action = "link" => ~is_symlink(fs, prev.log[i].dest)
           /\ \A i \in 1..Len(plans) : \A p \in DOMAIN plans[i] :
                 ~is_symlink(fs, Destination(plans[i][p]))

\* C5: in a plan of plan_uninstall an entry is UNLINK only if its
\* destination path was a symbolic link at planning time.
C5_UnlinkOnlySymlinks ==
    UninstallPlanned =>
        \A i \in 1..Len(plans) : \A p \in DOMAIN plans[i] :
            plans[i][p].action = "unlink" => is_symlink(fs, Destination(plans[i][p]))

C5_Witness ==
    /\ UninstallPlanned
    /\ \E p \in DOMAIN plans[1] : plans[1][p].action = "unlink"
    /\ \E p \in DOMAIN plans[1] :
          is_file(fs, Destination(plans[1][p])) /\ ~is_symlink(fs, Destination(plans[1][p]))

\* C6: a dry run leaves the file system and the ledger as they were, and
\* emits one description for each LINK, CREATE and UNLINK entry of the plans.
C6_DryRunFrame ==
    (cmd.dry /\ pc # "setup")
        => /\ fs = fs0 /\ db = db0
           /\ pc = "idle" =>
                 \/ cmd.kind = "install" /\ ~can_install(plans) /\ log = <<>>
                 \/ /\ Len(log) = TotalSteps(plans)
                    /\ \A i \in 1..Len(plans) : \A p \in DOMAIN plans[i] :
                          plans[i][p].action \in {"create", "link", "unlink"}
                             => \E k \in 1..Len(log) :
                                   /\ log[k].pkg = Sources[i]
                                   /\ log[k].path = p
                                   /\ log[k].action = plans[i][p].action

C6_Witness ==
    /\ cmd.dry /\ pc = "idle" /\ cmd.kind = "uninstall"
    /\ prev.kind = "install" /\ db # EmptyDb
    /\ log # <<>>

C8_ChildrenOfLinkSkipped ==
    InstallPlanned =>
        \A i \in 1..Len(plans) : \A p \in DOMAIN plans[i] :
            plans[i][p].action = "link"
                => \A c \in ChildrenIn(plans[i], p) : plans[i][c].action = "skip"

\* C9: in a plan of plan_install every entry is LINK, CREATE, EXISTS, FAIL
\* or SKIP: none is left NONE and none is UNLINK.
C9_EveryEntryDecided ==
    InstallPlanned =>
        \A i \in 1..Len(plans) : \A p \in DOMAIN plans[i] :
            plans[i][p].action \in {"link", "create", "exists", "fail", "skip"}

C9_Witness ==
    /\ InstallPlanned
    /\ \E p \in DOMAIN plans[1] : plans[1][p].action = "skip"
    /\ \E p \in DOMAIN plans[1] : plans[1][p].action = "link" /\ plans[1][p].is_dir

\* C10: in a plan of plan_install a directory of the package, other than
\* its root, whose destination path is a directory at planning time is
\* EXISTS, also when a child of it requires a rename and also when an
\* always-create pattern matches it.
C10_ExistsFirst ==
    InstallPlanned =>
        \A i \in 1..Len(plans) : \A p \in DOMAIN plans[i] :
            (/\ is_dir(fs, Sources[i] \o p)
             /\ ~is_symlink(fs, Sources[i] \o p)
             /\ is_dir(fs, Destination(plans[i][p])))
                => plans[i][p].action = "exists"

C10_Witness ==
    /\ InstallPlanned
    /\ \E p \in DOMAIN plans[1] :
          /\ is_dir(fs, S1 \o p) /\ ~is_symlink(fs, S1 \o p)
          /\ is_dir(fs, Destination(plans[1][p]))
          /\ \E c \in ChildrenIn(plans[1], p) : plans[1][c].requires_rename
          /\ _matches_always_create_at_exact_depth(
                 plans[1][p].relative_destination_path, patterns)


\* The directories of package i that plan_install visits and decides.
RealSourceDir(i, p) == is_dir(fs, Sources[i] \o p) /\ ~is_symlink(fs, Sources[i] \o p)

\* The case of C11: a directory strictly below a path an always-create
\* pattern names, with no pattern of its own depth, no child to rename and
\* no object at its destination.
BelowPatternOnly(i, p) ==
    LET destination == plans[i][p].relative_destination_path
    IN /\ RealSourceDir(i, p)
       /\ \E q \in patterns : IsPrefix(q, destination) /\ Len(q) < Len(destination)
       /\ ~\E q \in patterns : Len(q) = Len(destination) /\ IsPrefix(q, destination)
       /\ ~\E c \in ChildrenIn(plans[i], p) : plans[i][c].requires_rename
       /\ ~exists(fs, Destination(plans[i][p]))

\* C11 (as stated): in a plan of plan_install a directory strictly below a
\* path matched by an always-create pattern, with no pattern at its own
\* depth, no immediate child requiring a rename and no destination, is LINK.
C11_BelowPatternIsLink ==
    InstallPlanned =>
        \A i \in 1..Len(plans) : \A p \in DOMAIN plans[i] :
            BelowPatternOnly(i, p) => plans[i][p].action = "link"

\* C11 (amended): such a directory is never CREATE: it is LINK when its
\* parent is not itself linked whole, and SKIP when its parent is LINK or
\* SKIP (the whole subtree is then installed by one link higher up).
C11_BelowPatternNeverCreate ==
    InstallPlanned =>
        \A i \in 1..Len(plans) : \A p \in DOMAIN plans[i] :
            BelowPatternOnly(i, p) =>
                plans[i][p].action =
                    IF /\ Parent(p) \in DOMAIN plans[i]
                       /\ plans[i][Parent(p)].action \in {"link", "skip"}
                    THEN "skip" ELSE "link"

C11_Witness ==
    /\ InstallPlanned
    /\ \E p \in DOMAIN plans[1] :
          /\ BelowPatternOnly(1, p)
          /\ plans[1][p].action = "link"
          /\ plans[1][Parent(p)].action = "create"


\* The destination path of the entry above p (the root maps to the root).
ParentDestination(plan, p) ==
    IF Len(p) = 1 THEN Dot ELSE plan[Parent(p)].relative_destination_path

\* C12: every entry built by plan_install_paths has the destination path of
\* its parent entry joined with "." + the name without "dot-" when the name
\* starts with "dot-" (requires_rename true), and joined with the unchanged
\* name otherwise (requires_rename false).
C12_RenameCorrect ==
    pc = "planned" =>
        \A i \in 1..Len(plans) : \A p \in DOMAIN plans[i] :
            LET node == plans[i][p]
                name == Name(p)
            IN /\ node.relative_source_path = p
               /\ Len(p) > 1 => Parent(p) \in DOMAIN plans[i]
               /\ IF name[1] = "dot-"
                  THEN /\ node.requires_rename
                       /\ node.relative_destination_path =
                            Append(ParentDestination(plans[i], p), <<".">> \o Tail(name))
                  ELSE /\ ~node.requires_rename
                       /\ node.relative_destination_path =
                            Append(ParentDestination(plans[i], p), name)

C12_Witness ==
    /\ pc = "planned"
    /\ \E p \in DOMAIN plans[1] :
          /\ Len(p) = 2 /\ Name(p)[1] = "dot-" /\ Name(Parent(p))[1] = "dot-"
          /\ plans[1][p].relative_destination_path = << <<".", "a">>, <<".", "a">> >>


\* The objects of package i that are not ignored and lie below no ignored
\* directory, as paths relative to the package root.
Reachable(i) ==
    { RelativeTo(q, Sources[i]) :
        q \in { r \in Under(Sources[i]) \ {Sources[i]} :
                  \A k \in (Len(Sources[i]) + 1)..Len(r) : SubSeq(r, 1, k) \notin ignored } }

\* C13: the plan built by plan_install_paths has an entry for exactly the
\* non-ignored objects of the package, the root excluded: none for an
\* ignored object and none for an object below an ignored directory.
C13_EntryCoverage ==
    pc = "planned" =>
        \A i \in 1..Len(plans) :
            /\ DOMAIN plans[i] = Reachable(i)
            /\ \A p \in DOMAIN plans[i] : plans[i][p].relative_source_path = p

C13_Witness ==
    /\ pc = "planned"
    /\ \E q \in ignored :
          /\ is_dir(fs, q) /\ ~is_symlink(fs, q)
          /\ \E r \in DOMAIN fs : Len(r) = Len(q) + 1 /\ Parent(r) = q


\* C14: uninstall never removes a real directory or a regular file: its plan
\* has no UNLINK entry whose destination is one, and every real directory
\* and regular file that was there when the uninstall started (a directory
\* made by a CREATE step of an earlier install included) is there unchanged
\* at every point of its execution.
C14_UninstallKeepsRealObjects ==
    (cmd.kind = "uninstall" /\ pc # "setup") =>
        /\ \A p \in DOMAIN fs0 :
              fs0[p].k # "link" => (p \in DOMAIN fs /\ fs[p] = fs0[p])
        /\ \A i \in 1..Len(plans) : \A p \in DOMAIN plans[i] :
              (lexists(fs0, Destination(plans[i][p]))
               /\ ~is_symlink(fs0, Destination(plans[i][p])))
                  => plans[i][p].action # "unlink"

C14_Witness ==
    /\ cmd.kind = "uninstall" /\ ~cmd.dry /\ pc = "idle" /\ err = "none"
    /\ prev.kind = "install"
    /\ \E k \in 1..Len(log) : log[k].action = "unlink"
    /\ \E k \in 1..Len(prev.log) :
          /\ prev.log[k].action = "create"
          /\ prev.log[k].dest \in DOMAIN fs /\ fs[prev.log[k].dest] = Dir


\* The paths the ledger holds after the steps of log L, starting from the
\* paths K.
LedgerAfter(K, L) ==
    (K \cup { L[k].dest : k \in { j \in 1..Len(L) : L[j].action \in {"link", "create"} } })
       \ { L[k].dest : k \in { j \in 1..Len(L) : L[j].action = "unlink" } }

\* C15: through real commands that end without error the ledger holds a
\* record for exactly the destination paths an install linked or created
\* and no later uninstall unlinked: it starts empty, each real LINK or
\* CREATE step records its destination under its package, and each real
\* UNLINK step removes the record of its destination.
C15_LedgerTracksSteps ==
    (~cmd.dry /\ pc # "setup" /\ err \in {"none", "refused"}) =>
        /\ DOMAIN db = LedgerAfter(DOMAIN db0, log)
        /\ \A k \in 1..Len(log) :
              log[k].action \in {"link", "create"} =>
                 /\ db[log[k].dest].pkg = log[k].pkg
                 /\ db[log[k].dest].link_type = "created_dir" <=> log[k].action = "create"
        /\ prev.kind = "none" => db0 = EmptyDb
        /\ (prev.kind # "none" /\ ncmd = 2) => DOMAIN db0 = LedgerAfter({}, prev.log)

C15_Witness ==
    /\ cmd.kind = "uninstall" /\ ~cmd.dry /\ pc = "idle" /\ err = "none"
    /\ prev.kind = "install"
    /\ db # EmptyDb /\ db # db0
    /\ \E p \in DOMAIN db : db[p].link_type = "created_dir"


\* The scenario of C16 with b for dir1, dir2 and file.txt: package S1 is
\* b/b/b (two directories and a file), and when the uninstall starts T/b is
\* the one link of its install.
Dir1 == << <<"b">> >>
Dir2 == << <<"b">>, <<"b">> >>
FileTxt == << <<"b">>, <<"b">>, <<"b">> >>

Dir1Installed ==
    /\ cmd.kind = "uninstall" /\ pc # "setup"
    /\ prev.kind = "install"
    /\ Len(prev.log) = 1 /\ prev.log[1].action = "link" /\ prev.log[1].path = Dir1
    /\ ignored = {}
    /\ { RelativeTo(q, S1) : q \in Under(S1) \ {S1} } = {Dir1, Dir2, FileTxt}
    /\ fs0[S1 \o Dir1] = Dir /\ fs0[S1 \o Dir2] = Dir /\ fs0[S1 \o FileTxt] = File
    /\ is_symlink(fs0, Target \o Dir1)

NoneRemains ==
    \A p \in {Dir1, Dir2, FileTxt} : ~lexists(fs, Target \o p) /\ ~exists(fs, Target \o p)

\* C16 (as stated): in that scenario plan_uninstall gives dir1/dir2/file.txt
\* UNLINK, and after the uninstall none of dir1, dir1/dir2 and the file
\* remains at the destination.
C16_FileUnlinked ==
    Dir1Installed =>
        /\ plans[1][FileTxt].action = "unlink"
        /\ (pc = "idle" /\ ~cmd.dry) => NoneRemains

\* C16 (amended): in that scenario plan_uninstall gives dir1 UNLINK and
\* both dir1/dir2 and dir1/dir2/file.txt SKIP; the uninstall applies the one
\* step, ends without error, and none of the three remains.
C16_Dir1Unlinked ==
    Dir1Installed =>
        /\ plans[1][Dir1].action = "unlink"
        /\ plans[1][Dir2].action = "skip"
        /\ plans[1][FileTxt].action = "skip"
        /\ (pc = "idle" /\ ~cmd.dry) =>
              /\ NoneRemains /\ err = "none"
              /\ Len(log) = 1 /\ log[1].action = "unlink" /\ log[1].path = Dir1

C16_Witness ==
    Dir1Installed /\ pc = "idle" /\ ~cmd.dry /\ NoneRemains

\* The link steps of a real install command that were carried out, by their
\* position in the log, and the resolved source each one linked to.
AppliedLinks ==
    IF cmd.kind = "install" /\ ~cmd.dry /\ pc \in {"exec", "idle"}
    THEN { k \in 1..Len(log) : log[k].action = "link" /\ (err = "none" \/ k < Len(log)) }
    ELSE {}

LoggedSource(k) ==
    ResolvedSource(fs0, log[k].pkg, [relative_source_path |-> log[k].path])

LinkedAt(k) == fs[LPhys(fs, log[k].dest)]

\* A directory other than the file-system root that holds both paths.
CommonAncestor(p, q) == Len(p) > 0 /\ Len(q) > 0 /\ p[1] = q[1]

\* C17 as stated: a LINK step creates the symlink with a relative target
\* whenever the resolved source and the destination share a common ancestor
\* directory, and with an absolute target only otherwise.
C17_RelativeIffCommonAncestor ==
    \A k \in AppliedLinks :
        LinkedAt(k).rel <=> CommonAncestor(LoggedSource(k), log[k].dest)

\* C17: a LINK step creates the symlink with a target relative to the
\* destination's parent directory exactly when the resolved source lies
\* inside that directory, and with the absolute resolved source otherwise;
\* either way the link leads to the resolved source.
C17_RelativeIffUnderParent ==
    \A k \in AppliedLinks :
        LET destination == log[k].dest
            source == LoggedSource(k)
            node == LinkedAt(k)
        IN /\ node.k = "link"
           /\ node.rel <=> IsPrefix(Parent(destination), source)
           /\ node.rel => Parent(destination) \o node.t = source
           /\ ~node.rel => node.t = source

C17_Witness ==
    /\ pc = "idle" /\ err = "none"
    /\ \E k \in AppliedLinks : LinkedAt(k) = RelLink(<< <<"pkg">>, <<"b">> >>)

\* The plan of package i as plan_install or plan_uninstall holds it just
\* before deleting the root entry.
Construction(i) ==
    IF cmd.kind = "install"
    THEN InstallWalk(fs, plan_install_paths(fs, ignored, Sources[i]),
                     Sources[i], Target, patterns, Dot, 1)
    ELSE UninstallWalk(fs, plan_install_paths(fs, ignored, Sources[i]),
                       Sources[i], Target, Dot, 1)

EmptyPackage(i) == Under(Sources[i]) = {Sources[i]}

\* C18: the root entry '.' is never a key of a plan returned by plan_install
\* or plan_uninstall, an empty package yields an empty plan, and the root
\* entry exists during construction only, with decision EXISTS.
C18_RootOnlyDuringConstruction ==
    pc = "planned" =>
        \A i \in 1..Len(plans) :
            /\ Dot \notin DOMAIN plans[i]
            /\ EmptyPackage(i) => DOMAIN plans[i] = {}
            /\ Dot \in DOMAIN Construction(i)
            /\ plans[i] = DelRoot(Construction(i))
            /\ Construction(i)[Dot].action = "exists"

\* The strict ancestors of p in the plan, from its parent upward until the
\* first one with decision EXISTS or the root, all have decision CREATE.
RECURSIVE AncestorsCreate(_, _)
AncestorsCreate(plan, p) ==
    LET parent == Parent(p)
    IN \/ parent \notin DOMAIN plan
       \/ plan[parent].action = "exists"
       \/ plan[parent].action = "create" /\ AncestorsCreate(plan, parent)

\* C19: in every plan returned by plan_install, every strict ancestor of a
\* directory with decision CREATE, walking upward until the first ancestor
\* with decision EXISTS or the root, has decision CREATE.
C19_AncestorsOfCreate ==
    InstallPlanned =>
        \A i \in 1..Len(plans) : \A p \in DOMAIN plans[i] :
            (plans[i][p].is_dir /\ plans[i][p].action = "create")
                => AncestorsCreate(plans[i], p)

\* A real source directory of package i whose destination does not exist
\* and that has a planned immediate child requiring a rename.
NeedsRealDirectory(i, p) ==
    /\ RealSourceDir(i, p)
    /\ ~exists(fs, Destination(plans[i][p]))
    /\ \E c \in ChildrenIn(plans[i], p) : plans[i][c].requires_rename

\* C20: every non-root source directory whose destination does not exist at
\* planning time and that has a planned immediate child with requires_rename
\* ends with decision CREATE in the plan returned by plan_install, and each
\* of its immediate children that no earlier visit decided (every child
\* that is not itself a walked directory) ends as LINK.
C20_RenamedChildForcesCreate ==
    InstallPlanned =>
        \A i \in 1..Len(plans) : \A p \in DOMAIN plans[i] :
            NeedsRealDirectory(i, p) =>
                /\ plans[i][p].action = "create"
                /\ \A c \in ChildrenIn(plans[i], p) :
                      ~RealSourceDir(i, c) => plans[i][c].action = "link"

C20_Witness ==
    /\ InstallPlanned
    /\ \E p \in DOMAIN plans[1] :
          /\ NeedsRealDirectory(1, p)
          /\ \E c, d \in ChildrenIn(plans[1], p) :
                /\ plans[1][c].requires_rename
                /\ ~plans[1][d].requires_rename /\ ~RealSourceDir(1, d)

\* C21: in every plan returned by plan_uninstall, every descendant entry,
\* at any depth, of a directory entry with decision UNLINK has decision SKIP.
C21_BelowUnlinkSkipped ==
    UninstallPlanned =>
        \A i \in 1..Len(plans) : \A p, q \in DOMAIN plans[i] :
            (plans[i][p].is_dir /\ plans[i][p].action = "unlink"
                /\ p # q /\ IsPrefix(p, q))
                => plans[i][q].action = "skip"

Processed == {"link", "create", "unlink"}
PackageOf(k) == CHOOSE i \in 1..Len(plans) : Sources[i] = log[k].pkg

\* The file-system locations whose content differs from the start of the
\* command.
Changed ==
    { p \in DOMAIN fs \cup DOMAIN fs0 :
        p \notin DOMAIN fs \/ p \notin DOMAIN fs0 \/ fs[p] # fs0[p] }

\* C22: the steps execute_plan takes are exactly the entries with decision
\* LINK, CREATE or UNLINK, each once, in ascending order of
\* relative_source_path, so an entry comes after its processed ancestors;
\* entries with any other decision cause no file-system operation.
C22_ProcessedInOrder ==
    (pc \in {"exec", "idle"} /\ err # "refused") =>
        /\ \A k \in 1..Len(log) :
              /\ \E i \in 1..Len(plans) : Sources[i] = log[k].pkg
              /\ log[k].path \in DOMAIN plans[PackageOf(k)]
              /\ plans[PackageOf(k)][log[k].path].action = log[k].action
              /\ log[k].action \in Processed
              /\ \A p \in DOMAIN plans[PackageOf(k)] :
                    (plans[PackageOf(k)][p].action \in Processed
                        /\ PathLess(p, log[k].path))
                    => \E j \in 1..(k - 1) :
                          log[j].pkg = log[k].pkg /\ log[j].path = p
        /\ \A j, k \in 1..Len(log) :
              (j < k /\ log[j].pkg = log[k].pkg) =>
                  /\ PathLess(log[j].path, log[k].path)
                  /\ ~IsPrefix(log[k].path, log[j].path)
        /\ (pc = "idle" /\ err = "none") =>
              \A i \in 1..Len(plans) : \A p \in DOMAIN plans[i] :
                  plans[i][p].action \in Processed =>
                      \E k \in 1..Len(log) :
                          log[k].pkg = Sources[i] /\ log[k].path = p
        /\ Changed \subseteq
              { LPhys(fs, log[k].dest) : k \in 1..Len(log) }
              \cup { LPhys(fs0, log[k].dest) : k \in 1..Len(log) }

C22_Witness ==
    /\ pc = "idle" /\ err = "none" /\ ~cmd.dry /\ Len(log) = 2
    /\ log[1].action = "create" /\ log[2].action = "link"
    /\ Parent(log[2].path) = log[1].path
    /\ \E p \in DOMAIN plans[1] : plans[1][p].action \notin Processed

\* The file system after the unlink steps log[1..n] were applied to fs0.
AfterUnlinks(n) ==
    [ p \in DOMAIN fs0 \ { LPhys(fs0, log[j].dest) : j \in 1..n } |-> fs0[p] ]

\* C23: in a real execution an UNLINK step whose destination is not a
\* symlink ends the command in the fatal state (exit status 2): the object
\* there is not removed, no later step runs, the steps applied before are
\* kept; a command that ends without error unlinked a symlink at every step.
C23_BadUnlinkIsFatal ==
    /\ err = "exit2" =>
          /\ pc = "idle" /\ ~cmd.dry /\ cmd.kind = "uninstall" /\ log # <<>>
          /\ log[Len(log)].action = "unlink"
          /\ ~is_symlink(fs, log[Len(log)].dest)
          /\ errIdx \in 1..Len(plans)
          /\ \A j \in 1..(Len(log) - 1) : is_symlink(fs0, log[j].dest)
          /\ fs = AfterUnlinks(Len(log) - 1)
    /\ (cmd.kind = "uninstall" /\ ~cmd.dry /\ pc \in {"exec", "idle"} /\ err = "none") =>
          /\ \A j \in 1..Len(log) : is_symlink(fs0, log[j].dest)
          /\ fs = AfterUnlinks(Len(log))

C23_Witness ==
    /\ err = "exit2" /\ Len(log) = 1
    /\ is_file(fs, log[1].dest) /\ ~is_symlink(fs, log[1].dest)
    /\ \E i \in 1..Len(plans) : \E p \in DOMAIN plans[i] :
          /\ plans[i][p].action = "unlink"
          /\ \A k \in 1..Len(log) : log[k].pkg # Sources[i] \/ log[k].path # p
          /\ is_symlink(fs, Destination(plans[i][p]))

\* A second install command, right after a real install of the same
\* packages that ended without error.
Reinstall == cmd.kind = "install" /\ ncmd = 2 /\ prev.kind = "install"

FileEntries(plan) == { p \in DOMAIN plan : ~plan[p].is_dir }

\* C24: after a package has been installed and nothing else changed,
\* plan_install for the same package and destination marks every file entry
\* FAIL, its destination now resolving to a regular file; when the package
\* holds a file the install command is refused and executes nothing.
C24_ReinstallRefused ==
    (Reinstall /\ pc # "setup") =>
        /\ \A i \in 1..Len(plans) : \A p \in FileEntries(plans[i]) :
              /\ plans[i][p].action = "fail"
              /\ is_file(fs0, Destination(plans[i][p]))
        /\ (\E i \in 1..Len(plans) : FileEntries(plans[i]) # {}) =>
              /\ ~can_install(plans)
              /\ pc = "idle" => (err = "refused" /\ log = <<>> /\ fs = fs0 /\ db = db0)

\* C25: when two packages are installed in one invocation and neither plan,
\* both computed before any execution, holds a FAIL entry, executing the
\* first plan and then the second raises no 'already exists' error on any
\* LINK or CREATE step.
C25_TwoPackagesNoAlreadyExists ==
    (cmd.kind = "install" /\ ~cmd.dry /\ Len(plans) = 2 /\ can_install(plans)
        /\ pc \in {"exec", "idle"})
        => err # "FileExistsError"

\* C26: plan_uninstall marks an entry UNLINK only when the symlink at its
\* destination resolves to that entry's source object in the package being
\* uninstalled; a symlink there that points anywhere else is never marked
\* UNLINK and survives the uninstall.
C26_UnlinkOnlyOwnLinks ==
    /\ UninstallPlanned =>
          \A i \in 1..Len(plans) : \A p \in DOMAIN plans[i] :
              plans[i][p].action = "unlink" =>
                  /\ is_symlink(fs, Destination(plans[i][p]))
                  /\ exists(fs, Destination(plans[i][p]))
                  /\ Resolve(fs, Destination(plans[i][p]))
                        = Resolve(fs, Sources[i] \o p)
    /\ (cmd.kind = "uninstall" /\ pc \in {"exec", "idle"}) =>
          \A i \in 1..Len(plans) : \A p \in DOMAIN plans[i] :
              (/\ is_symlink(fs0, Destination(plans[i][p]))
               /\ Resolve(fs0, Destination(plans[i][p]))
                     # Resolve(fs0, Sources[i] \o p))
                  => /\ lexists(fs, Destination(plans[i][p]))
                     /\ fs[LPhys(fs, Destination(plans[i][p]))]
                           = fs0[LPhys(fs0, Destination(plans[i][p]))]

\* The plan plan_install_paths builds for package i.
PathsPlan(i) == plan_install_paths(fs, ignored, Sources[i])

\* C27: in every plan built by plan_install_paths distinct entries have
\* distinct relative_destination_path values, also for sibling source names
\* that differ only by a 'dot-' prefix versus a leading '.'.
C27_DestinationsInjective ==
    pc = "planned" =>
        \A i \in 1..Len(plans) : \A p, q \in DOMAIN PathsPlan(i) :
            p # q => PathsPlan(i)[p].relative_destination_path
                        # PathsPlan(i)[q].relative_destination_path

\* The source objects the ignore predicate keeps out of the plan: the
\* ignored ones and everything below an ignored directory.
Excluded == { s \in SourceNodes : \E q \in ignored : IsPrefix(q, s) }

\* C28: after a real install no source object that the ignore predicate
\* excluded from the plan can be reached under the destination root through
\* a link or a directory the install created.
C28_IgnoredNotExposed ==
    (cmd.kind = "install" /\ ~cmd.dry /\ pc = "idle" /\ err = "none") =>
        \A s \in Excluded : \A k \in AppliedLinks :
            ~exists(fs, log[k].dest \o RelativeTo(s, log[k].pkg \o log[k].path))
            \/ ~IsPrefix(log[k].pkg \o log[k].path, s)

\* C29: in every plan returned by plan_install the decisions CREATE and
\* EXISTS are carried by directory entries only (is_dir true, as probed on
\* the source), and every file entry ends as LINK, SKIP or FAIL.
C29_CreateExistsOnlyDirectories ==
    InstallPlanned =>
        \A i \in 1..Len(plans) : \A p \in DOMAIN plans[i] :
            /\ plans[i][p].is_dir = is_dir(fs, Sources[i] \o p)
            /\ plans[i][p].action \in {"create", "exists"} => plans[i][p].is_dir
            /\ ~plans[i][p].is_dir => plans[i][p].action \in {"link", "skip", "fail"}

C29_Witness ==
    /\ InstallPlanned
    /\ \E p, q, r \in DOMAIN plans[1] :
          /\ plans[1][p].action = "create"
          /\ ~plans[1][q].is_dir /\ Parent(q) = p /\ plans[1][q].action = "link"
          /\ plans[1][r].is_dir /\ is_symlink(fs, S1 \o r) /\ plans[1][r].action = "link"

\* A step of plan_install_paths, plan_install or plan_uninstall: the command
\* goes from its start to holding its plans.
PlanningStep == pc # "planned" /\ pc' = "planned"

====
